---- MODULE Spec2Model ----
(***************************************************************************)
(* A model of src/src/Stats.js: the StatsPanel closure (running min/max,   *)
(* the 2D context state, the header text and the pixels of the scrolling   *)
(* graph) and the Stats container (the child list of the container div,    *)
(* each child's style.display, the closure variable currentPanelIndex and  *)
(* the object Stats() returns).                                            *)
(*                                                                         *)
(* Numbers.  A sample value is a rational n / Den, held as the integer n.  *)
(* maxValue, widths, heights and pixel coordinates are integers.  The      *)
(* device pixel ratio is a rational q / DprDen, held as <<q>>, and <<>>    *)
(* when window.devicePixelRatio is undefined.                              *)
(***************************************************************************)
EXTENDS Integers, Sequences, FiniteSets, TLC

\* ---------------------------------------------------------------- bounds
Den == 2
DprDen == 4
MaxDprQ == 8
MaxUpdates == 3
MaxPanels == 4
MaxCalls == 3

\* Infinity of line 14: above every finite sample and never printed.
Infinity == 1000000

\* ---------------------------------------------------------------- inputs
\* Samples n / Den: -2 - 1/Den, 10, 30, 50, 75 + 1/Den.  With maxValue 60 and
\* the Heights below, (1 - value / maxValue) * GRAPH_HEIGHT evaluated in doubles
\* rounds as the exact quotient does, so round() below is exact on them.
Values == {-2 * Den - 1, 10 * Den, 30 * Den, 50 * Den, 75 * Den + 1}
MaxValues == {0, 60}
Widths == {7, 8}
\* heights for which GRAPH_HEIGHT is a whole number of pixels
Heights == {48, 66}
DevicePixelRatios == {<<>>} \cup {<<q>> : q \in 0..MaxDprQ}
\* (name, fg, bg) as Stats() constructs its panels
FPS == <<"FPS", "#0ff", "#002">>
MS == <<"MS", "#0f0", "#020">>
MB == <<"MB", "#f08", "#201">>
PanelStyles == {FPS}
\* arguments of showPanel: one below and one above every index in use
PanelIds == -1..MaxPanels
\* undefined, where a panel is expected
Undefined == 0

VARIABLES
    \* ---- StatsPanel
    pc,            \* "new" before StatsPanel() ran, "ready" after
    name, fg, bg, width, height, showMaximum,
    PR,
    min, max,
    fillStyle, globalAlpha,      \* context state; alpha in percent
    text, textColor,             \* the header text last drawn, and its color
    graph,                       \* graph[x][y]: pixel of the graph region
    headerWash,                  \* rows of the header strip washed above the last column
    error,                       \* exception the last call raised
    samples,                     \* log of the (value, maxValue) passed to update
    \* ---- Stats
    spc,                 \* "new" before Stats() ran, "ready" after
    performanceMemory,   \* window.performance && window.performance.memory, as Stats() read it
    labels,              \* labels[p]: name of panel p when Stats() constructed it, else ""
    children,            \* container.children: panels by their canvas, in document order
    display,             \* display[p]: style.display of panel p's canvas
    currentPanelIndex,   \* the closure variable of line 121
    stats,               \* the object Stats() returned
    result,              \* what the last call returned
    calls                \* log of the calls of addPanel and showPanel, Stats()'s own included

panelVars == <<pc, name, fg, bg, width, height, showMaximum, PR, min, max,
               fillStyle, globalAlpha, text, textColor, graph, headerWash,
               error, samples>>

overlayVars == <<spc, performanceMemory, labels, children, display,
                 currentPanelIndex, stats, result, calls>>

vars == <<panelVars, overlayVars>>

\* ---------------------------------------------------------------- Math
\* Math.round(n / d), d > 0: floor(n / d + 1/2)
round(n, d) == (2 * n + d) \div (2 * d)

MathMin(a, b) == IF a <= b THEN a ELSE b
\* a maximum that forgets the earlier samples
MathMax_LastOnly(a, b) == b

MathMax(a, b) == IF a >= b THEN a ELSE b

\* ---------------------------------------------------------------- geometry
\* round(window.devicePixelRatio || 1): undefined and 0 are falsy
PixelRatio(dpr) == IF dpr = <<>> \/ dpr[1] = 0 THEN 1 ELSE round(dpr[1], DprDen)

WIDTH == width * PR
HEIGHT == height * PR
TEXT_X == 3 * PR
GRAPH_X == 3 * PR
GRAPH_Y == 15 * PR
GRAPH_WIDTH == (width - 6) * PR
\* (height - 18) * (height / 48) * PR; an integer for every height in Heights
GRAPH_HEIGHT == ((height - 18) * height * PR) \div 48

\* ---------------------------------------------------------------- canvas
\* A pixel is the sequence of paints that make it: <<c>> is opaque c, and
\* <<c, b>> is c under b at 90% opacity.
FillPixel(p, style, alpha) == IF alpha = 100 THEN <<style>> ELSE Append(p, style)

\* fillRect(GRAPH_X + x0 - 1, GRAPH_Y, w, h) restricted to the graph region:
\* pixel columns x0 .. x0+w-1, rows 1 .. h (h <= 0 covers no row of the graph)
FillGraphRect(g, x0, w, h, style, alpha) ==
    [x \in DOMAIN g |->
        IF x0 <= x /\ x < x0 + w
        THEN [y \in DOMAIN g[x] |->
                 IF y <= h THEN FillPixel(g[x][y], style, alpha) ELSE g[x][y]]
        ELSE g[x]]

\* a scroll by one pixel whatever the pixel ratio
DrawImageShift_OnePixel(g, shift) ==
    [x \in DOMAIN g |-> IF x + 1 \in DOMAIN g THEN g[x + 1] ELSE g[x]]

\* drawImage(canvas, GRAPH_X + PR, GRAPH_Y, GRAPH_WIDTH - PR, GRAPH_HEIGHT,
\*           GRAPH_X, GRAPH_Y, GRAPH_WIDTH - PR, GRAPH_HEIGHT) at alpha 1
DrawImageShift(g, shift) ==
    [x \in DOMAIN g |-> IF x + shift \in DOMAIN g THEN g[x + shift] ELSE g[x]]

\* a cap of the filled fraction instead of the unfilled one
CapHeight_Filled(value, maxValue) ==
    IF maxValue = 0 THEN <<>>
    ELSE <<(2 * value * (((height - 18) * height * PR) \div 48) + Den * maxValue)
            \div (2 * Den * maxValue)>>

\* the height argument of the last fillRect of update; <<>> when it is not finite
CapHeight(value, maxValue) ==
    IF maxValue = 0 THEN <<>>
    ELSE <<round((Den * maxValue - value) * GRAPH_HEIGHT, Den * maxValue)>>

evaluateStatsColor(value, maxValue) == fg

\* a header that prints the range as max-min
HeaderText_Swapped(value, maxValue, mn, mx) ==
    LET t == ToString((2 * value + Den) \div (2 * Den)) \o name \o " ("
             \o ToString((2 * mx + Den) \div (2 * Den)) \o "-"
             \o ToString((2 * mn + Den) \div (2 * Den)) \o ")"
    IN IF showMaximum THEN t \o "/" \o ToString(maxValue) ELSE t

\* the template literals of lines 75 and 77
HeaderText(value, maxValue, mn, mx) ==
    LET t == ToString(round(value, Den)) \o name \o " (" \o ToString(round(mn, Den))
             \o "-" \o ToString(round(mx, Den)) \o ")"
    IN IF showMaximum THEN t \o "/" \o ToString(maxValue) ELSE t

\* ---------------------------------------------------------------- StatsPanel
PanelInit ==
    /\ pc = "new"
    /\ name = "" /\ fg = "" /\ bg = ""
    /\ width = 0 /\ height = 0 /\ showMaximum = FALSE
    /\ PR = 0
    /\ min = Infinity /\ max = 0
    /\ fillStyle = "" /\ globalAlpha = 100
    /\ text = "" /\ textColor = ""
    /\ graph = <<>>
    /\ headerWash = 0
    /\ error = "none"
    /\ samples = <<>>

StatsPanel(style, w, h, sm, dpr) ==
    /\ pc = "new"
    /\ pc' = "ready"
    /\ name' = style[1] /\ fg' = style[2] /\ bg' = style[3]
    /\ width' = w /\ height' = h /\ showMaximum' = sm
    /\ min' = Infinity /\ max' = 0
    /\ PR' = PixelRatio(dpr)
    /\ text' = style[1] /\ textColor' = style[2]
    /\ graph' = [x \in 1..GRAPH_WIDTH' |-> [y \in 1..GRAPH_HEIGHT' |-> <<style[2], style[3]>>]]
    /\ fillStyle' = style[3] /\ globalAlpha' = 90
    /\ headerWash' = 0
    /\ error' = "none"
    /\ samples' = <<>>

update(value, maxValue) ==
    /\ pc = "ready"
    /\ Len(samples) < MaxUpdates
    /\ samples' = Append(samples, <<value, maxValue>>)
    /\ min' = MathMin(min, value)
    /\ max' = MathMax(max, value)
    /\ text' = HeaderText(value, maxValue, min', max')
    /\ textColor' = evaluateStatsColor(value, maxValue)
    /\ IF WIDTH = 0 \/ HEIGHT = 0
       THEN \* drawImage of a canvas with a zero dimension: InvalidStateError
            /\ error' = "InvalidStateError"
            /\ fillStyle' = evaluateStatsColor(value, maxValue)
            /\ globalAlpha' = 100
            /\ UNCHANGED <<graph, headerWash>>
       ELSE LET color == evaluateStatsColor(value, maxValue)
                cap == CapHeight(value, maxValue)
                scrolled == DrawImageShift(graph, PR)
                column == FillGraphRect(scrolled, GRAPH_WIDTH - PR + 1, PR,
                                        GRAPH_HEIGHT, color, 100)
            IN /\ error' = "none"
               /\ fillStyle' = bg
               /\ globalAlpha' = 90
               /\ graph' = IF cap = <<>> THEN column
                           ELSE FillGraphRect(column, GRAPH_WIDTH - PR + 1, PR,
                                              cap[1], bg, 90)
               /\ headerWash' = IF cap = <<>> \/ cap[1] >= 0 THEN 0
                                ELSE MathMin(-cap[1], GRAPH_Y)
    /\ UNCHANGED <<pc, name, fg, bg, width, height, showMaximum, PR>>

\* ---------------------------------------------------------------- Stats
Panels == 1..MaxPanels

IndexOf(ch, p) == CHOOSE i \in 1..Len(ch) : ch[i] = p
IsChild(ch, p) == \E i \in 1..Len(ch) : ch[i] = p

\* an append that leaves a panel that is already a child where it is
appendChild_KeepPlace(ch, p) ==
    IF \E i \in 1..Len(ch) : ch[i] = p THEN ch ELSE Append(ch, p)

\* container.appendChild(panel.dom): a node that is already a child is
\* removed from its place first, so it moves to the end
appendChild(ch, p) == Append(SelectSeq(ch, LAMBDA c : c # p), p)

\* a loop that shows the selected panel and hides no other
SetDisplay_ShowOnly(ch, disp, id) ==
    [p \in DOMAIN disp |->
        IF (\E i \in 1..Len(ch) : ch[i] = p /\ i - 1 = id) THEN "block" ELSE disp[p]]

\* the loop of showPanel over container.children
SetDisplay(ch, disp, id) ==
    [p \in DOMAIN disp |->
        IF IsChild(ch, p)
        THEN IF IndexOf(ch, p) - 1 = id THEN "block" ELSE "none"
        ELSE disp[p]]

\* a constructor that adds the memory panel without asking the environment
BuiltIn_AlwaysMemory(mem) == <<FPS, MS, MB>>

\* the panels Stats() constructs, in the order it adds them
BuiltIn(mem) == IF mem THEN <<FPS, MS, MB>> ELSE <<FPS, MS>>

\* the object literal of lines 148-161, with the closure's values at return
Returned(index, n) ==
    [REVISION |-> 17, currentPanelIndex |-> index,
     fpsPanel |-> 1, msPanel |-> 2, memPanel |-> IF n = 3 THEN 3 ELSE Undefined]

OverlayInit ==
    /\ spc = "new"
    /\ performanceMemory = FALSE
    /\ labels = [p \in Panels |-> ""]
    /\ children = <<>>
    /\ display = [p \in Panels |-> ""]
    /\ currentPanelIndex = 0
    /\ stats = [REVISION |-> 0, currentPanelIndex |-> 0,
                fpsPanel |-> Undefined, msPanel |-> Undefined, memPanel |-> Undefined]
    /\ result = Undefined
    /\ calls = <<>>

\* Stats(): panel p is the p-th StatsPanel it constructs
Stats(mem) ==
    LET built == BuiltIn(mem)
        n == Len(built)
        ch == IF n = 3 THEN appendChild(appendChild(appendChild(<<>>, 1), 2), 3)
              ELSE appendChild(appendChild(<<>>, 1), 2)
    IN /\ spc = "new"
       /\ spc' = "ready"
       /\ performanceMemory' = mem
       /\ labels' = [p \in Panels |-> IF p <= n THEN built[p][1] ELSE ""]
       /\ children' = ch
       /\ display' = SetDisplay(ch, display, 0)
       /\ currentPanelIndex' = 0
       /\ stats' = Returned(0, n)
       /\ result' = Undefined
       /\ calls' = [i \in 1..n |-> <<"addPanel", i>>] \o << <<"showPanel", 0>> >>

HostCalls == Len(calls) - (IF stats.memPanel = Undefined THEN 3 ELSE 4)

addPanel(panel) ==
    /\ spc = "ready"
    /\ HostCalls < MaxCalls
    /\ children' = appendChild(children, panel)
    /\ result' = panel
    /\ calls' = Append(calls, <<"addPanel", panel>>)
    /\ UNCHANGED <<spc, performanceMemory, labels, display, currentPanelIndex, stats>>

showPanel(id) ==
    /\ spc = "ready"
    /\ HostCalls < MaxCalls
    /\ display' = SetDisplay(children, display, id)
    /\ currentPanelIndex' = id
    /\ result' = Undefined
    /\ calls' = Append(calls, <<"showPanel", id>>)
    /\ UNCHANGED <<spc, performanceMemory, labels, children, stats>>

\* ---------------------------------------------------------------- specifications
Init == PanelInit /\ OverlayInit

PanelNext ==
    \/ \E style \in PanelStyles, w \in Widths, h \in Heights, sm \in BOOLEAN,
          dpr \in DevicePixelRatios :
              StatsPanel(style, w, h, sm, dpr) /\ UNCHANGED overlayVars
    \/ \E value \in Values, maxValue \in MaxValues :
              update(value, maxValue) /\ UNCHANGED overlayVars

OverlayNext ==
    \/ \E mem \in BOOLEAN : Stats(mem) /\ UNCHANGED panelVars
    \/ \E panel \in Panels : addPanel(panel) /\ UNCHANGED panelVars
    \/ \E id \in PanelIds : showPanel(id) /\ UNCHANGED panelVars

PanelSpec == Init /\ [][PanelNext]_vars

OverlaySpec == Init /\ [][OverlayNext]_vars
\* ---------------------------------------------------------------- properties
\* the integer nearest to n / d (d > 0), a tie going up
Nearest(n, d) == CHOOSE k \in -200..200 : 2 * d * k <= 2 * n + d /\ 2 * n + d < 2 * d * (k + 1)

Last(s) == s[Len(s)]

RECURSIVE Least(_, _)
Least(s, start) == IF s = <<>> THEN start
                   ELSE LET rest == Least(Tail(s), start)
                        IN IF Head(s)[1] < rest THEN Head(s)[1] ELSE rest

RECURSIVE Greatest(_, _)
Greatest(s, start) == IF s = <<>> THEN start
                      ELSE LET rest == Greatest(Tail(s), start)
                           IN IF Head(s)[1] > rest THEN Head(s)[1] ELSE rest

\* C1: after each update the running minimum and maximum bracket the value
\* just passed and every value passed before, the maximum is at least 0, and
\* from one call to the next the minimum never rises and the maximum never falls.
C1_MinMaxBracket ==
    /\ [](pc = "ready" =>
             /\ max >= 0
             /\ \A i \in 1..Len(samples) : min <= samples[i][1] /\ samples[i][1] <= max)
    /\ [][min' <= min /\ max' >= max]_vars

C1_Witness ==
    /\ pc = "ready" /\ Len(samples) >= 3
    /\ min < 0 /\ min < Last(samples)[1] /\ Last(samples)[1] < max

\* C7: after every update the header text is round(value), the label, then
\* " (round(min)-round(max))" for the running minimum and maximum that include
\* the value, and "/maxValue" after it exactly when show-maximum is on;
\* update(10, 60) then update(50, 60) on an "FPS" panel reads "50FPS (10-50)".
C7_HeaderText ==
    /\ (pc = "ready" /\ samples # <<>>) =>
          LET value == Last(samples)[1]
              head == ToString(Nearest(value, Den)) \o name \o " ("
                      \o ToString(Nearest(Least(samples, Infinity), Den)) \o "-"
                      \o ToString(Nearest(Greatest(samples, 0), Den)) \o ")"
          IN text = IF showMaximum THEN head \o "/" \o ToString(Last(samples)[2])
                    ELSE head
    /\ (pc = "ready" /\ name = "FPS" /\ ~showMaximum
          /\ samples = << <<10 * Den, 60>>, <<50 * Den, 60>> >>) => text = "50FPS (10-50)"

C7_Witness ==
    /\ pc = "ready" /\ name = "FPS" /\ ~showMaximum
    /\ samples = << <<10 * Den, 60>>, <<50 * Den, 60>> >>
    /\ min = 10 * Den /\ max = 50 * Den
    /\ text = "50FPS (10-50)"

\* C8: after update(value, maxValue) every pixel of the rightmost PR pixel
\* columns of the graph is painted in the policy's color, and when maxValue > 0
\* and 0 <= value <= maxValue its top h rows lie under the 90% background wash
\* and the rows below are the bare color, h being the integer nearest to
\* (1 - value / maxValue) * GRAPH_HEIGHT; with height 48 and pixel ratio 1,
\* update(30, 60) washes the top 15 of the 30 rows.
C8_NewColumn ==
    (pc = "ready" /\ samples # <<>>) =>
        LET value == Last(samples)[1]
            maxValue == Last(samples)[2]
            color == evaluateStatsColor(value, maxValue)
        IN \A x \in DOMAIN graph : x > GRAPH_WIDTH - PR =>
              /\ \A y \in DOMAIN graph[x] : graph[x][y][1] = color
              /\ (maxValue > 0 /\ 0 <= value /\ value <= Den * maxValue) =>
                    LET h == Nearest((Den * maxValue - value) * GRAPH_HEIGHT, Den * maxValue)
                    IN /\ 0 <= h /\ h <= GRAPH_HEIGHT
                       /\ \A y \in DOMAIN graph[x] :
                             graph[x][y] = IF y <= h THEN <<color, bg>> ELSE <<color>>
              /\ (height = 48 /\ PR = 1 /\ value = 30 * Den /\ maxValue = 60) =>
                    /\ DOMAIN graph[x] = 1..30
                    /\ \A y \in 1..30 :
                          graph[x][y] = IF y <= 15 THEN <<fg, bg>> ELSE <<fg>>

C8_Witness ==
    /\ pc = "ready" /\ height = 48 /\ PR = 1 /\ width = 8
    /\ Len(samples) = 2 /\ Last(samples) = <<30 * Den, 60>>
    /\ graph[2][15] = <<fg, bg>> /\ graph[2][16] = <<fg>>
    /\ graph[1] # graph[2]

\* the pixel column update paints for sample s
ColumnOf(s) ==
    LET cap == CapHeight(s[1], s[2])
    IN [y \in 1..GRAPH_HEIGHT |->
           IF cap # <<>> /\ y <= cap[1] THEN <<fg, bg>> ELSE <<fg>>]

\* what the graph shows after the samples of log s: the columns of the last
\* width - 6 samples, oldest leftmost, right of the columns still untouched
GraphOf(s) ==
    [x \in 1..GRAPH_WIDTH |->
        LET age == (width - 6) - ((x - 1) \div PR)
        IN IF age <= Len(s) THEN ColumnOf(s[Len(s) - age + 1])
           ELSE [y \in 1..GRAPH_HEIGHT |-> <<fg, bg>>]]

LastN(s, n) == IF Len(s) <= n THEN s ELSE SubSeq(s, Len(s) - n + 1, Len(s))

\* C9 (as amended): each update moves the content of every graph pixel
\* column PR pixels to the left, drops the leftmost column and keeps the number
\* of pixel columns; so after k updates of a graph of N columns the rightmost
\* min(k, N) columns hold the last min(k, N) samples, oldest leftmost, and the
\* graph is the same whatever the samples more than N updates old were.
C9_ScrollByOneColumn ==
    /\ [](pc = "ready" =>
             /\ Len(graph) = GRAPH_WIDTH
             /\ graph = GraphOf(samples)
             /\ graph = GraphOf(LastN(samples, width - 6)))
    /\ [][samples' # samples =>
             /\ Len(graph') = Len(graph)
             /\ \A x \in DOMAIN graph : x + PR \in DOMAIN graph => graph'[x] = graph[x + PR]]_vars

C9_Witness ==
    /\ pc = "ready" /\ PR = 2 /\ width = 8 /\ Len(samples) = 3
    /\ graph[1] = ColumnOf(samples[2]) /\ graph[2] = graph[1]
    /\ graph[3] = ColumnOf(samples[3]) /\ graph[4] = graph[3]
    /\ graph[1] # graph[3]
    /\ ColumnOf(samples[1]) # graph[1] /\ ColumnOf(samples[1]) # graph[3]

\* C9 (as claimed): the same, and a sample more than N updates old is
\* represented nowhere in the panel's state: the state is the one the last N
\* samples alone produce.
C9_Claimed ==
    pc = "ready" =>
        /\ Len(graph) = GRAPH_WIDTH
        /\ graph = GraphOf(LastN(samples, width - 6))
        /\ min = Least(LastN(samples, width - 6), Infinity)
        /\ max = Greatest(LastN(samples, width - 6), 0)

\* C6 (as claimed): the pixel ratio a constructed panel scales its geometry
\* by is never less than 1.
C6_Claimed == pc = "ready" => PR >= 1

\* ---- Stats
Visible == {p \in Panels : IsChild(children, p) /\ display[p] # "none"}

InRange(id) == 0 <= id /\ id < Len(children)

\* the panels passed to addPanel, in call order
RECURSIVE Added(_)
Added(log) == IF log = <<>> THEN <<>>
              ELSE IF Head(log)[1] = "addPanel" THEN <<Head(log)[2]>> \o Added(Tail(log))
              ELSE Added(Tail(log))

\* the indices passed to showPanel, in call order
RECURSIVE Shown(_)
Shown(log) == IF log = <<>> THEN <<>>
              ELSE IF Head(log)[1] = "showPanel" THEN <<Head(log)[2]>> \o Shown(Tail(log))
              ELSE Shown(Tail(log))

\* the panels of s, each once, in the order of their last occurrence
RECURSIVE ByLastOccurrence(_)
ByLastOccurrence(s) ==
    IF s = <<>> THEN <<>>
    ELSE IF \E i \in 2..Len(s) : s[i] = Head(s) THEN ByLastOccurrence(Tail(s))
    ELSE <<Head(s)>> \o ByLastOccurrence(Tail(s))

\* C2: showPanel(i) and then showPanel(j), i # j and both indices of
\* registered panels, leave exactly one registered panel visible: the one at j.
C2_ShowThenShow ==
    (spc = "ready" /\ Len(calls) >= 2) =>
        LET a == calls[Len(calls) - 1]
            b == calls[Len(calls)]
        IN (a[1] = "showPanel" /\ b[1] = "showPanel" /\ a[2] # b[2]
              /\ InRange(a[2]) /\ InRange(b[2]))
           => Visible = {children[b[2] + 1]}

C2_Witness ==
    /\ spc = "ready" /\ HostCalls = 3
    /\ calls[Len(calls) - 2][1] = "addPanel"
    /\ calls[Len(calls) - 1] = <<"showPanel", 2>>
    /\ calls[Len(calls)] = <<"showPanel", 1>>
    /\ Visible = {children[2]}

\* C3 (as claimed): the currentPanelIndex of the object Stats() returned is the
\* index passed to the most recent showPanel call (here for the calls that
\* pass the index of a registered panel).
C3_Claimed ==
    (spc = "ready" /\ InRange(Last(Shown(calls)))) =>
        stats.currentPanelIndex = Last(Shown(calls))

\* C4 (as amended): addPanel returns the panel it was passed and leaves it the
\* last child of the container; a panel that was a child already is moved
\* there, so the children are the panels passed, each once, in the order of
\* their most recent addPanel call.
C4_AppendMovesToEnd ==
    spc = "ready" =>
        /\ children = ByLastOccurrence(Added(calls))
        /\ \A i, j \in 1..Len(children) : children[i] = children[j] => i = j
        /\ Last(calls)[1] = "addPanel" =>
              result = Last(calls)[2] /\ Last(children) = Last(calls)[2]

C4_Witness ==
    /\ spc = "ready" /\ ~performanceMemory
    /\ Added(calls) = <<1, 2, 3, 1>>
    /\ children = <<2, 3, 1>>
    /\ result = 1

\* C4 (as claimed): the children of the container are the panels passed to
\* addPanel in call order, a panel passed twice being there twice.
C4_Claimed == spc = "ready" => children = Added(calls)

\* C5: right after Stats() the container holds the FPS panel and then the MS
\* panel, and then the MB panel exactly when the environment reported memory
\* usage: two panels without it and three with it, the first alone visible.
C5_Construction ==
    (spc = "ready" /\ HostCalls = 0) =>
        /\ Len(children) = IF performanceMemory THEN 3 ELSE 2
        /\ labels[children[1]] = "FPS" /\ labels[children[2]] = "MS"
        /\ performanceMemory => labels[children[3]] = "MB"
        /\ children[1] = stats.fpsPanel /\ children[2] = stats.msPanel
        /\ (stats.memPanel # Undefined) = performanceMemory
        /\ performanceMemory => children[3] = stats.memPanel
        /\ Visible = {children[1]}

C5_Witness ==
    /\ spc = "ready" /\ HostCalls = 0 /\ ~performanceMemory
    /\ children = <<1, 2>> /\ display[1] = "block" /\ display[2] = "none"

\* C10 (as claimed): whenever every showPanel so far was passed the index of a
\* registered panel (0 or 1: Stats() registers two panels at least), the panel
\* at the selected index is visible and every other registered panel is
\* hidden (here for the runs that pass no panel to addPanel twice).
C10_Claimed ==
    (/\ spc = "ready"
     /\ \A i \in 1..Len(Shown(calls)) : Shown(calls)[i] \in 0..1
     /\ Added(calls) = ByLastOccurrence(Added(calls))) =>
        Visible = {children[currentPanelIndex + 1]}
====
